---- MODULE Spec2Model ----
(***************************************************************************)
(* Model of the MultiVCFAnalyzer module of MultiQC                         *)
(* (multiqc/modules/multivcfanalyzer/multivcfanalyzer.py).                 *)
(*                                                                         *)
(* One behaviour is one construction of MultiqcModule: the files found by  *)
(* find_log_files are handed to parse_data one by one, the record table    *)
(* mvcf_data is filtered by ignore_samples, and a non-empty table is       *)
(* written and plotted.  The host utilities (clean_s_name, ignore_samples, *)
(* add_data_source, the writers and renderers) are the environment: the    *)
(* name-cleaning function and the ignored names are arbitrary, the other   *)
(* calls are recorded in the order the constructor makes them.             *)
(***************************************************************************)
EXTENDS Integers, Sequences, FiniteSets, TLC

VARIABLES
    clean,         \* the host's name cleaning: <<raw name, root>> -> cleaned name
    pending,       \* files find_log_files has still to yield
    f,             \* the file most recently handed to parse_data
    nfiles,        \* number of files handed to parse_data so far
    mvcf_data,     \* self.mvcf_data: cleaned name -> (metric name -> stored value)
    data_sources,  \* the add_data_source calls made so far, in order
    log,           \* the messages logged so far, in order
    calls,         \* the host calls the constructor has made so far, in order
    pc,            \* the constructor's position
    exc            \* the exception that left the constructor, if any

vars == <<clean, pending, f, nfiles, mvcf_data, data_sources, log, calls, pc, exc>>

(***************************************************************************)
(* Bounds.                                                                 *)
(***************************************************************************)
MaxFiles == 2      \* at most this many files are discovered in one run
MaxStrLen == 3     \* longest generated metric string (field-level runs)

(***************************************************************************)
(* JSON values as json.load returns them.  Every value has the same shape: *)
(*   t        "int" | "float" | "str" | "bool" | "null" | "array" |        *)
(*            "object" | "invalid" (text json.load rejects)                *)
(*   m, e     the number m / 10^e (int: e = 0; bool: m is 1 or 0)          *)
(*   s        the characters of a string                                   *)
(*   members  the key/value pairs of an object, in document order          *)
(*   items    the (string) elements of an array                            *)
(***************************************************************************)
JV(t, m, e, s, members, items) ==
    [t |-> t, m |-> m, e |-> e, s |-> s, members |-> members, items |-> items]

JInt(n)      == JV("int", n, 0, <<>>, <<>>, <<>>)
JFloat(m, e) == JV("float", m, e, <<>>, <<>>, <<>>)
JStr(s)      == JV("str", 0, 0, s, <<>>, <<>>)
JBool(b)     == JV("bool", IF b THEN 1 ELSE 0, 0, <<>>, <<>>, <<>>)
JNull        == JV("null", 0, 0, <<>>, <<>>, <<>>)
JArray(xs)   == JV("array", 0, 0, <<>>, <<>>, xs)
JObject(ms)  == JV("object", 0, 0, <<>>, ms, <<>>)
JInvalid     == JV("invalid", 0, 0, <<>>, <<>>, <<>>)

Member(k, v) == [key |-> k, value |-> v]

EmptyDict == [x \in {} |-> 0]

Put(d, k, v) == [x \in (DOMAIN d) \cup {k} |-> IF x = k THEN v ELSE d[x]]

Restrict(d, keys) == [x \in (DOMAIN d) \cap keys |-> d[x]]

(***************************************************************************)
(* Exceptions: the type and the source line that raises it.                *)
(***************************************************************************)
Exc(type, line) == [type |-> type, line |-> line]
NoExc == Exc("none", 0)

(***************************************************************************)
(* float(v), line 72.  Strings are parsed digit by digit; the grammar      *)
(* modelled is digits with at most one decimal point and at least one      *)
(* digit (Python also accepts signs, exponents, blanks, inf and nan).      *)
(* A float is kept as mantissa and number of decimals, with no trailing    *)
(* zero decimal, so that "5.50" and "5.5" are the same number.             *)
(***************************************************************************)
Digits == {"0", "1", "2", "3", "4", "5", "6", "7", "8", "9"}

DigitVal(c) ==
    CASE c = "0" -> 0 [] c = "1" -> 1 [] c = "2" -> 2 [] c = "3" -> 3
      [] c = "4" -> 4 [] c = "5" -> 5 [] c = "6" -> 6 [] c = "7" -> 7
      [] c = "8" -> 8 [] c = "9" -> 9

IsFloatLiteral(s) ==
    /\ \A i \in 1..Len(s) : s[i] \in Digits \cup {"."}
    /\ Cardinality({i \in 1..Len(s) : s[i] = "."}) <= 1
    /\ \E i \in 1..Len(s) : s[i] \in Digits

RECURSIVE Mantissa(_, _, _)
Mantissa(s, i, acc) ==
    IF i > Len(s) THEN acc
    ELSE IF s[i] = "." THEN Mantissa(s, i + 1, acc)
    ELSE Mantissa(s, i + 1, 10 * acc + DigitVal(s[i]))

Decimals(s) ==
    IF \E i \in 1..Len(s) : s[i] = "."
    THEN Len(s) - (CHOOSE i \in 1..Len(s) : s[i] = ".")
    ELSE 0

RECURSIVE Normal(_, _)
Normal(m, e) ==
    IF e > 0 /\ m % 10 = 0 THEN Normal(m \div 10, e - 1) ELSE JFloat(m, e)

RECURSIVE Pow10(_)
Pow10(e) == IF e = 0 THEN 1 ELSE 10 * Pow10(e - 1)

FloatResult(x, val) == [exc |-> x, val |-> val]

\* int(v) in place of float(v).
float_int(v) ==
    CASE v.t \in {"int", "bool"} -> FloatResult("none", JInt(v.m))
      [] v.t = "float" -> FloatResult("none", JInt(v.m \div Pow10(v.e)))
      [] v.t = "str" ->
            IF IsFloatLiteral(v.s) /\ Decimals(v.s) = 0
            THEN FloatResult("none", JInt(Mantissa(v.s, 1, 0)))
            ELSE FloatResult("ValueError", v)
      [] OTHER -> FloatResult("TypeError", v)

float(v) ==
    CASE v.t \in {"int", "bool"} -> FloatResult("none", JFloat(v.m, 0))
      [] v.t = "float" -> FloatResult("none", Normal(v.m, v.e))
      [] v.t = "str" ->
            IF IsFloatLiteral(v.s)
            THEN FloatResult("none", Normal(Mantissa(v.s, 1, 0), Decimals(v.s)))
            ELSE FloatResult("ValueError", v)
      [] OTHER -> FloatResult("TypeError", v)

(***************************************************************************)
(* The value lines 71-74 store for a metric value v: float(v), or v itself *)
(* when float raises ValueError.  A TypeError is not caught there.         *)
(***************************************************************************)
Coerce(v) == IF float(v).exc = "none" THEN float(v).val ELSE v

\* Lines 70-74: the loop over the fields of one sample, from field i on.
\* The record is filled in place, so the fields stored before an uncaught
\* exception stay in it.
RECURSIVE FieldLoop(_, _, _)
FieldLoop(members, i, rec) ==
    IF i > Len(members) THEN [rec |-> rec, exc |-> NoExc]
    ELSE LET k == members[i].key
             v == members[i].value
         IN  IF float(v).exc = "TypeError"
             THEN [rec |-> rec, exc |-> Exc("TypeError", 72)]
             ELSE FieldLoop(members, i + 1, Put(rec, k, Coerce(v)))

(***************************************************************************)
(* Host utilities used by parse_data.                                      *)
(***************************************************************************)
RawKeys    == {"S1", "S2"}                \* sample names as written in the files
Roots      == {"r1", "r2"}                \* directories the files are found in
CleanNames == {"metadata", "S1", "S2"}    \* names the host cleaning can return
CleanSpace == [RawKeys \X Roots -> CleanNames]

\* self.clean_s_name(s_name, f['root']), line 63: any function of the name
\* and the directory; a name outside the modelled sample names is unchanged.
clean_s_name(s_name, root) ==
    IF <<s_name, root>> \in DOMAIN clean THEN clean[<<s_name, root>>] ELSE s_name

LogMsg(level, what, about) == [level |-> level, what |-> what, about |-> about]

\* Line 60: the reserved top-level key is passed over.
IsSkipped_never(s_name) == FALSE

IsSkipped(s_name) == s_name = "metadata"

\* Line 63: the key of the record.
SampleKey_raw(s_name, root) == s_name

SampleKey(s_name, root) == clean_s_name(s_name, root)

\* Line 67: self.add_data_source(f, s_clean).
AddDataSource_new(ds, data, file, s_clean) ==
    IF s_clean \in DOMAIN data THEN ds
    ELSE Append(ds, [fn |-> file.fn, s_name |-> s_clean])

AddDataSource(ds, data, file, s_clean) ==
    Append(ds, [fn |-> file.fn, s_name |-> s_clean])

\* Line 68: self.mvcf_data[s_clean] = dict().
FreshRecord_keep(data, s_clean) ==
    IF s_clean \in DOMAIN data THEN data[s_clean] ELSE EmptyDict

FreshRecord(data, s_clean) == EmptyDict

\* Line 59: the names `for s_name in data` yields: the keys of an object in
\* document order, the elements of an array, the characters of a string.
IterNames(content) ==
    CASE content.t = "object" -> [i \in 1..Len(content.members) |-> content.members[i].key]
      [] content.t = "array"  -> content.items
      [] content.t = "str"    -> content.s
      [] OTHER                -> <<>>

ValueOf(content, k) ==
    content.members[CHOOSE i \in 1..Len(content.members) : content.members[i].key = k].value

\* Lines 59-74: the loop over the top-level names, from name i on.
\* st = [data, ds, log, exc]: the record table, the provenance calls, the
\* log and the exception raised (the loop stops at the first one).
RECURSIVE SampleLoop(_, _, _, _)
SampleLoop(file, names, i, st) ==
    IF i > Len(names) THEN st
    ELSE IF IsSkipped(names[i]) THEN SampleLoop(file, names, i + 1, st)
    ELSE
      LET s_name  == names[i]
          s_clean == SampleKey(s_name, file.root)
          log1    == IF s_clean \in DOMAIN st.data
                     THEN Append(st.log, LogMsg("debug", "duplicate", s_clean))
                     ELSE st.log
          ds1     == AddDataSource(st.ds, st.data, file, s_clean)
          data1   == Put(st.data, s_clean, FreshRecord(st.data, s_clean))
          st1     == [data |-> data1, ds |-> ds1, log |-> log1, exc |-> NoExc]
      IN  IF file.content.t # "object"
          THEN [st1 EXCEPT !.exc = Exc("TypeError", 70)]
          ELSE IF ValueOf(file.content, s_name).t # "object"
          THEN [st1 EXCEPT !.exc = Exc("AttributeError", 70)]
          ELSE
            LET r   == FieldLoop(ValueOf(file.content, s_name).members, 1, data1[s_clean])
                st2 == [st1 EXCEPT !.data = Put(data1, s_clean, r.rec), !.exc = r.exc]
            IN  IF r.exc # NoExc THEN st2
                ELSE SampleLoop(file, names, i + 1, st2)

\* Lines 50-74: parse_data(f) on the state st.
parse_data(file, st) ==
    CASE file.content.t = "invalid" ->
            [st EXCEPT !.log = st.log \o <<LogMsg("debug", "exception", file.fn),
                                           LogMsg("warn", "could not parse", file.fn)>>]
      [] file.content.t \in {"int", "float", "bool", "null"} ->
            [st EXCEPT !.exc = Exc("TypeError", 59)]
      [] OTHER -> SampleLoop(file, IterNames(file.content), 1, st)

(***************************************************************************)
(* The input files.  A file is [fn, root, content]; content is what        *)
(* json.load makes of the text (JInvalid: json.load raises).               *)
(***************************************************************************)
File(fn, root, content) == [fn |-> fn, root |-> root, content |-> content]

NoFile == File("", "", JNull)

Chars(a, b, c) == <<a, b, c>>

\* The example of the specification: {"NR Aut": "100", "NrX": "5.5", "noCall": "low"}.
ExampleEntry ==
    JObject(<<Member("NR Aut", JStr(Chars("1", "0", "0"))),
              Member("NrX", JStr(Chars("5", ".", "5"))),
              Member("noCall", JStr(Chars("l", "o", "w")))>>)

\* {"NrX": 7, "NrY": 2.5, "XSnps": "1.50"}
OtherEntry ==
    JObject(<<Member("NrX", JInt(7)),
              Member("NrY", JFloat(25, 1)),
              Member("XSnps", JStr(<<"1", ".", "5", "0">>))>>)

\* {"NrX": true, "NrY": null, "noCall": "low"}
NullEntry ==
    JObject(<<Member("NrX", JBool(TRUE)),
              Member("NrY", JNull),
              Member("noCall", JStr(Chars("l", "o", "w")))>>)

Catalogue ==
    { File("f01", "r1", JObject(<<Member("metadata", JArray(<<"v1">>)),
                                  Member("S1", ExampleEntry)>>)),
      File("f02", "r2", JObject(<<Member("S1", OtherEntry),
                                  Member("S2", ExampleEntry)>>)),
      File("f03", "r1", JObject(<<Member("S2", OtherEntry)>>)),
      File("f04", "r2", JInvalid),
      File("f05", "r1", JInt(3)),
      File("f06", "r2", JArray(<<"S1">>)),
      File("f07", "r1", JObject(<<Member("S1", JInt(7))>>)),
      File("f08", "r2", JObject(<<Member("S2", NullEntry)>>)),
      File("f09", "r1", JObject(<<Member("metadata", ExampleEntry)>>)),
      File("f10", "r2", JArray(<<>>)),
      File("f11", "r1", JObject(<<Member("S2", ExampleEntry),
                                  Member("metadata", JStr(Chars("l", "o", "w"))),
                                  Member("S1", OtherEntry)>>)),
      File("f12", "r2", JObject(<<>>)) }

\* Field-level inputs: one file {"S1": {"NrX": v}} for every metric value v.
Alphabet == {"0", "1", "5", ".", "l", "o", "w"}

Strings == UNION {[1..n -> Alphabet] : n \in 0..MaxStrLen}

FieldValues ==
    {JStr(s) : s \in Strings}
        \cup {JInt(n) : n \in {0, 7, 100}}
        \cup {JFloat(55, 1), JFloat(1, 2)}
        \cup {JBool(TRUE), JBool(FALSE), JNull, JArray(<<>>), JObject(<<>>)}

FieldFile(v) == File("g01", "r1", JObject(<<Member("S1", JObject(<<Member("NrX", v)>>))>>))

(***************************************************************************)
(* The static tables handed to the renderers.                              *)
(***************************************************************************)
Headers ==
    <<"SNP Calls (all)", "SNP Calls (het)", "coverage(fold)", "coverage(percent)",
      "refCall", "allPos", "noCall", "discardedRefCall", "discardedVarCall",
      "filteredVarCall", "unhandledGenotype">>

ReadCats == <<"NR Aut", "NrX", "NrY">>

SnpCats == <<"Snps Autosomal", "XSnps", "YSnps">>

Call(op, arg, keys, data) == [op |-> op, arg |-> arg, keys |-> keys, data |-> data]

(***************************************************************************)
(* The constructor, lines 26-48.                                           *)
(***************************************************************************)
Start ==
    /\ f = NoFile
    /\ nfiles = 0
    /\ mvcf_data = EmptyDict
    /\ data_sources = <<>>
    /\ log = <<>>
    /\ calls = <<>>
    /\ pc = "discover"
    /\ exc = NoExc

Init ==
    /\ clean \in CleanSpace
    /\ pending \in {S \in SUBSET Catalogue : Cardinality(S) <= MaxFiles}
    /\ Start

FieldInit ==
    /\ clean = [x \in RawKeys \X Roots |-> x[1]]
    /\ pending \in {{}} \cup {{FieldFile(v)} : v \in FieldValues}
                        \cup {{File("f04", "r2", JInvalid)}}
    /\ Start

\* Lines 30-31: the next discovered file goes through parse_data.  An
\* exception parse_data lets through leaves the constructor.
ParseData ==
    /\ pc = "discover"
    /\ \E file \in pending :
         LET st == parse_data(file, [data |-> mvcf_data, ds |-> data_sources,
                                     log |-> log, exc |-> NoExc])
         IN  /\ pending' = pending \ {file}
             /\ f' = file
             /\ nfiles' = nfiles + 1
             /\ mvcf_data' = st.data
             /\ data_sources' = st.ds
             /\ log' = st.log
             /\ exc' = st.exc
             /\ pc' = IF st.exc = NoExc THEN "discover" ELSE "crashed"
             /\ calls' = Append(calls, Call("parse_data", file.fn, <<>>, EmptyDict))
    /\ UNCHANGED clean

\* Line 34: self.mvcf_data = self.ignore_samples(self.mvcf_data), once the
\* loop over the files has ended.  The host removes the entries whose name
\* matches its ignore rules: any set of names.
ignore_samples(data, ignored) == Restrict(data, (DOMAIN data) \ ignored)

IgnoreSamples ==
    /\ pc = "discover"
    /\ pending = {}
    /\ \E ignored \in SUBSET CleanNames :
         mvcf_data' = ignore_samples(mvcf_data, ignored)
    /\ calls' = Append(calls, Call("ignore_samples", "", <<>>, mvcf_data))
    /\ pc' = "check"
    /\ UNCHANGED <<clean, pending, f, nfiles, data_sources, log, exc>>

\* Line 37: len(self.mvcf_data) == 0.
IsEmpty_never(data) == FALSE

IsEmpty_one(data) == Cardinality(DOMAIN data) <= 1

IsEmpty(data) == DOMAIN data = {}

\* Lines 37-38: raise UserWarning when no sample is left.
CheckEmpty ==
    /\ pc = "check"
    /\ IF IsEmpty(mvcf_data)
       THEN pc' = "skipped" /\ exc' = Exc("UserWarning", 38)
       ELSE pc' = "write" /\ exc' = exc
    /\ UNCHANGED <<clean, pending, f, nfiles, mvcf_data, data_sources, log, calls>>

\* Lines 41-48: the statement that follows each emit statement.
StageAfter_swapped(stage) ==
    CASE stage = "write"     -> "summary"
      [] stage = "summary"   -> "snp_plot"
      [] stage = "snp_plot"  -> "read_plot"
      [] stage = "read_plot" -> "done"

StageAfter(stage) ==
    CASE stage = "write"     -> "summary"
      [] stage = "summary"   -> "read_plot"
      [] stage = "read_plot" -> "snp_plot"
      [] stage = "snp_plot"  -> "done"

Emit(stage, new_calls) ==
    /\ pc = stage
    /\ calls' = calls \o new_calls
    /\ pc' = StageAfter(stage)
    /\ UNCHANGED <<clean, pending, f, nfiles, mvcf_data, data_sources, log, exc>>

\* Line 41.
WriteDataFile ==
    Emit("write", <<Call("write_data_file", "multiqc_multivcfanalyzer_metrics",
                         <<>>, mvcf_data)>>)

\* Lines 44, 76-150.
AddSummaryMetrics ==
    Emit("summary", <<Call("general_stats_addcols", "", Headers, mvcf_data)>>)

\* Lines 47, 152-171: the plot is built, then the section is added.
ReadCountBarplot ==
    Emit("read_plot", <<Call("bargraph.plot", "sexdeterrmine-readcounts-plot",
                             ReadCats, mvcf_data),
                        Call("add_section", "sexdeterrmine-readcounts", <<>>, EmptyDict)>>)

\* Lines 48, 173-192.
SnpCountBarplot ==
    Emit("snp_plot", <<Call("bargraph.plot", "sexdeterrmine-snps-plot",
                            SnpCats, mvcf_data),
                       Call("add_section", "sexdeterrmine-snps", <<>>, EmptyDict)>>)

Next ==
    \/ ParseData
    \/ IgnoreSamples
    \/ CheckEmpty
    \/ WriteDataFile
    \/ AddSummaryMetrics
    \/ ReadCountBarplot
    \/ SnpCountBarplot

Spec == Init /\ [][Next]_vars

FieldSpec == FieldInit /\ [][Next]_vars

(***************************************************************************)
(* Vocabulary of the properties.                                           *)
(***************************************************************************)
Range(s) == {s[i] : i \in 1..Len(s)}

FileNamed(fn) == CHOOSE x \in Catalogue : x.fn = fn

\* The files that went through parse_data so far, in order.
Parsed == [i \in 1..nfiles |-> FileNamed(calls[i].arg)]

\* The top-level names of a file that parse_data does not pass over.
NonMetaNames(file) == {k \in Range(IterNames(file.content)) : k # "metadata"}

\* The cleaned names of a file's samples.
CleanedNames(file) == {clean_s_name(k, file.root) : k \in NonMetaNames(file)}

\* Input as section 6 of the specification describes it: an object whose
\* samples are objects of numbers and strings.
WellFormed(file) ==
    /\ file.content.t = "object"
    /\ \A i \in 1..Len(file.content.members) :
         LET m == file.content.members[i]
         IN  m.key # "metadata" =>
               /\ m.value.t = "object"
               /\ \A j \in 1..Len(m.value.members) :
                    m.value.members[j].value.t \in {"int", "float", "str"}

\* rec holds exactly the fields of the sample entry, each coerced.
RecordOf(rec, entry) ==
    /\ DOMAIN rec = {entry.members[j].key : j \in 1..Len(entry.members)}
    /\ \A j \in 1..Len(entry.members) :
         rec[entry.members[j].key] = Coerce(entry.members[j].value)

\* parse_data has just returned normally from a well-formed file.
ParsedWellFormed == nfiles > 0 /\ pc = "discover" /\ WellFormed(f)

EmitOps == {"write_data_file", "general_stats_addcols", "bargraph.plot", "add_section"}

EmitCalls == {i \in 1..Len(calls) : calls[i].op \in EmitOps}

(***************************************************************************)
(* C1                                                                      *)
(***************************************************************************)
\* C1 as claimed: a well-formed file parsed into the empty table leaves as
\* many records as it has non-metadata top-level keys, whatever the name
\* cleaning.
C1_RecordPerKey ==
    (ParsedWellFormed /\ nfiles = 1) =>
        Cardinality(DOMAIN mvcf_data) = Cardinality(NonMetaNames(f))

\* C1 amended: a parse_data call on a well-formed file leaves exactly one
\* record for every distinct cleaned name of the file's non-metadata keys,
\* built from one of the keys cleaned to that name, and leaves the records
\* of all other names as they were; the number of records added equals the
\* number of non-metadata keys when the cleaning maps these keys to distinct
\* names that are not yet in the table.
C1_RecordPerCleanedName ==
    [][ (pc = "discover" /\ pc' = "discover" /\ nfiles' = nfiles + 1 /\ WellFormed(f')) =>
          /\ DOMAIN mvcf_data' = (DOMAIN mvcf_data) \cup CleanedNames(f')
          /\ \A n \in (DOMAIN mvcf_data) \ CleanedNames(f') : mvcf_data'[n] = mvcf_data[n]
          /\ \A k \in NonMetaNames(f') : clean_s_name(k, f'.root) \in DOMAIN mvcf_data'
          /\ \A n \in CleanedNames(f') :
                \E k \in NonMetaNames(f') :
                    /\ clean_s_name(k, f'.root) = n
                    /\ RecordOf(mvcf_data'[n], ValueOf(f'.content, k))
          /\ ( /\ Cardinality(CleanedNames(f')) = Cardinality(NonMetaNames(f'))
               /\ CleanedNames(f') \cap DOMAIN mvcf_data = {} )
             => Cardinality(DOMAIN mvcf_data') - Cardinality(DOMAIN mvcf_data)
                  = Cardinality(NonMetaNames(f'))
      ]_vars

\* Two keys of one well-formed file were cleaned to the same name and share
\* one record.
C1_Witness ==
    /\ ParsedWellFormed
    /\ Cardinality(NonMetaNames(f)) = 2
    /\ Cardinality(CleanedNames(f)) = 1
    /\ CleanedNames(f) \subseteq DOMAIN mvcf_data

(***************************************************************************)
(* C2                                                                      *)
(***************************************************************************)
\* C2 as claimed: "metadata" is never a key of mvcf_data, whatever the
\* files hold and whatever the name cleaning returns.
C2_MetadataNeverAKey == "metadata" \notin DOMAIN mvcf_data

\* C2 amended: the top-level key "metadata" itself never yields a record or
\* a provenance registration, whatever its value: every registration, and
\* every key of mvcf_data ("metadata" included), stems from a top-level key
\* other than "metadata" whose cleaned name it is.
C2_MetadataOnlyByCleaning ==
    /\ \A i \in 1..Len(data_sources) :
          \E k \in NonMetaNames(FileNamed(data_sources[i].fn)) :
              clean_s_name(k, FileNamed(data_sources[i].fn).root) = data_sources[i].s_name
    /\ \A n \in DOMAIN mvcf_data :
          \E i \in 1..Len(data_sources) : data_sources[i].s_name = n
    /\ "metadata" \in DOMAIN mvcf_data =>
          \E i \in 1..nfiles : "metadata" \in CleanedNames(Parsed[i])

\* A file with a "metadata" entry was parsed and the table has a record
\* named "metadata" that comes from a sample of that file.
C2_Witness ==
    /\ nfiles = 1
    /\ pc = "discover"
    /\ "metadata" \in Range(IterNames(f.content))
    /\ "metadata" \in DOMAIN mvcf_data

(***************************************************************************)
(* C3                                                                      *)
(***************************************************************************)
\* The parsed files that have a sample cleaned to n, by position.
Suppliers(n) == {i \in 1..nfiles : n \in CleanedNames(Parsed[i])}

LastSupplier(n) == Parsed[CHOOSE i \in Suppliers(n) : \A j \in Suppliers(n) : j <= i]

\* C3: as long as no exception has left the constructor, the record of a
\* name is the record built from one entry of the last parsed file that has
\* a sample of that name: all fields of that entry and no other field.
C3_LastWriteWins ==
    pc # "crashed" =>
        \A n \in DOMAIN mvcf_data :
            /\ Suppliers(n) # {}
            /\ \E k \in NonMetaNames(LastSupplier(n)) :
                  /\ clean_s_name(k, LastSupplier(n).root) = n
                  /\ RecordOf(mvcf_data[n], ValueOf(LastSupplier(n).content, k))

\* Two files gave a sample of the same name, the earlier one with a field
\* the later one lacks, and the pipeline has finished.
C3_Witness ==
    /\ pc = "done"
    /\ \E n \in DOMAIN mvcf_data :
          /\ Cardinality(Suppliers(n)) = 2
          /\ \E i \in Suppliers(n) : \E k \in NonMetaNames(Parsed[i]) :
                /\ clean_s_name(k, Parsed[i].root) = n
                /\ \E j \in 1..Len(ValueOf(Parsed[i].content, k).members) :
                      ValueOf(Parsed[i].content, k).members[j].key \notin DOMAIN mvcf_data[n]

(***************************************************************************)
(* C4                                                                      *)
(***************************************************************************)
\* Content parse_data can walk: an object whose samples are objects.
Processable(file) ==
    /\ file.content.t = "object"
    /\ \A k \in NonMetaNames(file) : ValueOf(file.content, k).t = "object"

\* C4: a file whose content cannot be processed (invalid JSON, or JSON that
\* is not an object of sample objects) raises nothing, and adds neither a
\* record nor a provenance registration.
C4_ParseErrorsRecovered ==
    (nfiles = 1 /\ ~Processable(f)) =>
        /\ pc # "crashed"
        /\ exc = NoExc
        /\ mvcf_data = EmptyDict
        /\ data_sources = <<>>

(***************************************************************************)
(* C5                                                                      *)
(***************************************************************************)
\* C5: the numeric coercion of a metric value never lets an exception out
\* of parse_data, whatever JSON value the field holds.
C5_CoercionNeverRaises == ~(pc = "crashed" /\ exc.line = 72)

(***************************************************************************)
(* C6 (checked on the field-level inputs, FieldSpec)                       *)
(***************************************************************************)
\* The metric value of a field-level file and the value stored for it.
FieldInput == f.content.members[1].value.members[1].value

FieldStored == mvcf_data["S1"]["NrX"]

FieldParsed == nfiles = 1 /\ pc = "discover" /\ f.content.t = "object"

\* The float x is the number the literal s denotes.
Denotes(x, s) ==
    /\ x.t = "float"
    /\ x.m * Pow10(Decimals(s)) = Mantissa(s, 1, 0) * Pow10(x.e)

\* C6: a string that is a floating-point literal, and a JSON number, is
\* stored as the float of the same value; any other string is stored as it
\* is; coercing the stored value again gives the stored value; the values
\* of the specification's example are stored as 100.0, 5.5 and "low".
C6_CoercionStored ==
    FieldParsed =>
        /\ (FieldInput.t = "str" /\ IsFloatLiteral(FieldInput.s))
              => Denotes(FieldStored, FieldInput.s)
        /\ (FieldInput.t = "str" /\ ~IsFloatLiteral(FieldInput.s))
              => FieldStored = FieldInput
        /\ FieldInput.t \in {"int", "float"}
              => /\ FieldStored.t = "float"
                 /\ FieldStored.m * Pow10(FieldInput.e) = FieldInput.m * Pow10(FieldStored.e)
        /\ float(FieldStored).exc # "TypeError"
        /\ Coerce(FieldStored) = FieldStored
        /\ FieldInput = JStr(<<"1", "0", "0">>) => FieldStored = JFloat(100, 0)
        /\ FieldInput = JStr(<<"5", ".", "5">>) => FieldStored = JFloat(55, 1)
        /\ FieldInput = JStr(<<"l", "o", "w">>) => FieldStored = JStr(<<"l", "o", "w">>)

\* The string "5.5" has been parsed and stored.
C6_Witness == FieldParsed /\ FieldInput = JStr(<<"5", ".", "5">>)

(***************************************************************************)
(* C7                                                                      *)
(***************************************************************************)
\* No file was discovered.
NoFiles == nfiles = 0 /\ pending = {}

\* C7: with no discovered file the constructor ends by raising UserWarning
\* and never calls write_data_file, general_stats_addcols, add_section or
\* bargraph.plot.
C7_NoFilesSkip ==
    NoFiles =>
        /\ pc \in {"discover", "check", "skipped"}
        /\ EmitCalls = {}
        /\ pc = "skipped" <=> exc = Exc("UserWarning", 38)
        /\ pc # "skipped" => exc = NoExc

\* The constructor has raised UserWarning with no file discovered.
C7_Witness == NoFiles /\ pc = "skipped" /\ exc.type = "UserWarning"

(***************************************************************************)
(* C8                                                                      *)
(***************************************************************************)
Ops == [i \in 1..Len(calls) |-> calls[i].op]

IsPrefix(s, t) == Len(s) <= Len(t) /\ \A i \in 1..Len(s) : s[i] = t[i]

\* The stages that follow the parsing, in the order of lines 34-48.
StageOrder ==
    <<"ignore_samples", "write_data_file", "general_stats_addcols",
      "bargraph.plot", "add_section", "bargraph.plot", "add_section">>

AfterParsing == SubSeq(Ops, nfiles + 1, Len(calls))

\* C8: the calls made so far are the parse_data calls, one per discovered
\* file, followed by a prefix of: filter, data file, summary columns,
\* read-count chart, SNP-count chart.  The filter runs only when every
\* discovered file has been parsed, the emptiness check only after the
\* filter, and a constructor that returns has made every call once.
C8_LinearPipeline ==
    /\ nfiles <= Len(calls)
    /\ \A i \in 1..nfiles : calls[i].op = "parse_data"
    /\ \A i \in 1..nfiles : \A j \in 1..nfiles : calls[i].arg = calls[j].arg => i = j
    /\ IsPrefix(AfterParsing, StageOrder)
    /\ AfterParsing # <<>> => pending = {}
    /\ pc \in {"check", "skipped", "write", "summary", "read_plot", "snp_plot", "done"}
          => AfterParsing # <<>>
    /\ pc \in {"discover", "crashed"} => AfterParsing = <<>>
    /\ pc \in {"check", "skipped"} => AfterParsing = <<"ignore_samples">>
    /\ pc = "done" => AfterParsing = StageOrder
    /\ \A i \in 1..Len(calls) :
          calls[i].op = "bargraph.plot" =>
              calls[i].arg = (IF i = nfiles + 4 THEN "sexdeterrmine-readcounts-plot"
                              ELSE "sexdeterrmine-snps-plot")

\* Two files were parsed and the constructor has returned.
C8_Witness == pc = "done" /\ nfiles = 2 /\ Len(calls) = 9

(***************************************************************************)
(* C9                                                                      *)
(***************************************************************************)
Emitted(op) == {i \in 1..Len(calls) : calls[i].op = op}

\* C9: once the filter and the check are passed, UserWarning is raised
\* exactly when the filtered table is empty; then nothing is written or
\* rendered; otherwise the data file, the summary columns and both bar
\* charts are emitted with the filtered table.
C9_SkipIffEmpty ==
    /\ pc \in {"skipped", "write", "summary", "read_plot", "snp_plot", "done"}
          => /\ pc = "skipped" <=> mvcf_data = EmptyDict
             /\ pc = "skipped" <=> exc.type = "UserWarning"
    /\ pc = "skipped" => EmitCalls = {}
    /\ exc.type = "UserWarning" => pc = "skipped"
    /\ pc = "done"
          => /\ Cardinality(Emitted("write_data_file")) = 1
             /\ Cardinality(Emitted("general_stats_addcols")) = 1
             /\ Cardinality(Emitted("bargraph.plot")) = 2
             /\ Cardinality(Emitted("add_section")) = 2
             /\ \A i \in EmitCalls :
                   calls[i].op # "add_section" => calls[i].data = mvcf_data

\* Samples were parsed and registered, and the filter removed them all.
C9_Witness ==
    /\ pc = "skipped"
    /\ nfiles > 0
    /\ data_sources # <<>>
    /\ calls[nfiles + 1].data # EmptyDict

(***************************************************************************)
(* C10                                                                     *)
(***************************************************************************)
Registrations(n) == {i \in 1..Len(data_sources) : data_sources[i].s_name = n}

LastRegistration(n) ==
    data_sources[CHOOSE i \in Registrations(n) : \A j \in Registrations(n) : j <= i]

\* The table as it was when the filter was called; the table itself before.
Unfiltered == IF pc \in {"discover", "crashed"} THEN mvcf_data ELSE calls[nfiles + 1].data

\* C10: every record of the unfiltered table has a provenance registration,
\* and between two files the last registration of a name is for the file
\* that supplied the record; every parsed file has one registration per
\* non-metadata key; the filter removes no registration.
C10_Provenance ==
    /\ \A n \in DOMAIN Unfiltered : Registrations(n) # {}
    /\ pc # "crashed" =>
          /\ \A n \in DOMAIN Unfiltered :
                LastRegistration(n).fn = LastSupplier(n).fn
          /\ \A i \in 1..nfiles :
                Cardinality({j \in 1..Len(data_sources) : data_sources[j].fn = Parsed[i].fn})
                    = Cardinality(NonMetaNames(Parsed[i]))

\* The constructor has returned and the registry names a sample that is not
\* in the emitted table.
C10_Witness ==
    /\ pc = "done"
    /\ \E i \in 1..Len(data_sources) : data_sources[i].s_name \notin DOMAIN mvcf_data

====
